---- MODULE Spec2Model ----
(***************************************************************************)
(* apartment-cam, cam-proxy/server.js: the telemetry cache                 *)
(* (statusCache / capsCache with single-flight builds), the status         *)
(* aggregator (buildStatusPayload and its five upstream sub-calls), and    *)
(* the viewer presence registry (viewerHeartbeats).                        *)
(*                                                                         *)
(* Node runs the handlers on one event loop: a handler runs without        *)
(* interruption up to its next await, so each action below is one such     *)
(* run-to-suspension step.                                                 *)
(***************************************************************************)
EXTENDS Integers, Sequences, FiniteSets, TLC

\* ------------------------------------------------------------------ bounds
NumCallers == 2
MaxBuilds == 3
MaxTicks == 1
MaxFaults == 1
NumViewers == 3
NumConns == 2
MaxStreamTicks == 2
MaxPresenceTicks == 3
MaxScenarioTicks == 8

\* ------------------------------------------------------- program constants
PTZ_MIN_ZOOM_DEFAULT == 1
PTZ_MAX_ZOOM_DEFAULT == 9999
STATUS_CACHE_MS == 7000
CAPS_CACHE_MS == 60000
VIEWER_HEARTBEAT_TTL_MS == 65000
TELEMETRY_PUSH_INTERVAL_MS == 20000
VIEWER_STREAM_PING_MS == 15000

Caches == {"status", "caps"}
Fields == {"optics", "geolocation", "time", "device", "temperature"}
Callers == 1..NumCallers
BuildIds == 1..MaxBuilds
NoPromise == 0

VARIABLES
  now,        \* Date.now()
  resource,   \* the resource this run's requests are for
  ticks,      \* how many times the clock has advanced
  cache,      \* statusCache / capsCache: data, expiresAt, promise
  promise,    \* the promise objects created by the async builders, by number
  nbuilds,    \* how many builds (buildStatusPayload / getPtzLimits calls) started
  caller,     \* the handlers that called getCachedStatusPayload / getCachedCapabilities
  window,     \* history: per cache, how many of its builds have settled
  startsIn,   \* history: per cache, builds started since its last build settled
  builtAt,    \* history: per cache, its last successful build and the Date.now() it
              \* completed at (none: build 0, at -1)
  lastSettle, \* history: per cache, how its last settled build ended, and which it was
  sub,        \* the five sub-calls of the running buildStatusPayload()
  payload,    \* the object buildStatusPayload() last returned
  viewerHeartbeats,  \* the Map viewerHeartbeats: its entries, id and timestamp
  lastHb,     \* history: per viewer id, Date.now() of its last recorded heartbeat
  hbVia,      \* history: per viewer id, the ways its heartbeats were recorded
  resp,       \* the last viewer count given out (a response or a viewers event)
  conn,       \* the connections to GET /api/telemetry/stream
  limits,     \* the running getPtzLimits() call and what it returned
  parse,      \* the last upstream body parsed: which parser, its numeric fields as
              \* sent, and the fields of the object the parser returned
  client      \* the viewer page's telemetry effect: its closure variables, the
              \* EventSources it created, the browser's pending timers and the
              \* page state its handlers set

clockVars == <<now, ticks, resource>>
cacheVars == <<cache, promise, nbuilds, caller, window, startsIn, builtAt, lastSettle>>
aggVars == <<sub, payload>>
presenceVars == <<viewerHeartbeats, lastHb, hbVia, resp>>
streamVars == <<conn>>
limitsVars == <<limits, parse, client>>
vars == <<clockVars, cacheVars, aggVars, presenceVars, streamVars, limitsVars>>

\* data: null in the source; a snapshot is named by the build that made it
NoData == [build |-> 0, err |-> {}]
NoResult == [kind |-> "none", build |-> 0, err |-> {}]
IdleCaller == [pc |-> "idle", c |-> "status", p |-> NoPromise, res |-> NoResult,
               cold |-> FALSE, win |-> 0, last |-> 0, started |-> FALSE]

TTL(c) == IF c = "status" THEN STATUS_CACHE_MS ELSE CAPS_CACHE_MS

\* the clock advances to just below, onto and past an expiry of cache c
CacheDeltas(c) == {TTL(c) - 1, TTL(c)}

\* what the camera does during one build, as far as the cache layer can tell
CameraModes == {"up", "down"}

ViewerIds == 1..NumViewers
Absent == -1

IdleSub == [pc |-> "idle", res |-> "none", main |-> "none", alt |-> "none", body |-> "none"]
NoPayload == [fields |-> [f \in Fields |-> "none"], fetchedAt |-> -1]
NoResp == [kind |-> "none", count |-> 0, ids |-> {}]

\* the members of the capabilities object
LimitKeys == {"minZoom", "maxZoom", "minPan", "maxPan", "minTilt", "maxTilt"}
\* a member that is not set
Unset == [set |-> FALSE, n |-> 0]
\* getPtzLimits() has not been called
NoLimits == [pc |-> "idle", hdr |-> "none", raw |-> [k \in LimitKeys |-> "absent"],
             res |-> [k \in LimitKeys |-> Unset], error |-> FALSE]

\* no body has been parsed
NoParse == [parser |-> "none", raw |-> <<>>, out |-> <<>>]

\* `retryTimeout = null`
NoTimeout == 0

\* the telemetry effect has not run: no EventSource, no timer, and the page
\* state as useState initialises it
NoClient ==
  [phase |-> "idle", sources |-> <<>>, retryTimeout |-> NoTimeout,
   retryCount |-> 0, closed |-> FALSE, timers |-> {}, ntimers |-> 0,
   scheduled |-> <<>>, apiError |-> "null", loadingStatus |-> FALSE,
   viewerCount |-> 0]

Conns == 1..NumConns
\* `viewerId = null`: the connection gave no id (or an empty one)
NoId == 0
\* a timer that is not set, or was cleared
NoTimer == -1
\* a connection that has not been made
NoConn == [st |-> "none", id |-> NoId, heartbeatId |-> NoTimer, statusId |-> NoTimer,
           awaits |-> <<>>, wrote |-> <<>>, late |-> {}, started |-> {}, left |-> {},
           got |-> {}]

InitButConn ==
  /\ now = 0
  /\ resource \in Caches
  /\ ticks = 0
  /\ cache = [c \in Caches |-> [data |-> NoData, expiresAt |-> 0, promise |-> NoPromise]]
  /\ promise = [b \in BuildIds |-> [c |-> "status", state |-> "unused", err |-> {}]]
  /\ nbuilds = 0
  /\ caller = [r \in Callers |-> IdleCaller]
  /\ window = [c \in Caches |-> 0]
  /\ startsIn = [c \in Caches |-> 0]
  /\ builtAt = [c \in Caches |-> [at |-> -1, build |-> 0]]
  /\ lastSettle = [c \in Caches |-> [how |-> "none", build |-> 0]]
  /\ sub = [f \in Fields |-> IdleSub]
  /\ payload = NoPayload
  /\ viewerHeartbeats = {}
  /\ lastHb = [id \in ViewerIds |-> Absent]
  /\ hbVia = [id \in ViewerIds |-> {}]
  /\ limits = NoLimits
  /\ parse = NoParse
  /\ client = NoClient
  /\ resp = NoResp

Init == InitButConn /\ conn = [c \in Conns |-> NoConn]

\* mutant: cached data is served whatever its age
Fresh_NoExpiry(c) == cache[c].data # NoData

\* mutant: a snapshot that carries an error is not served from the cache
Fresh_GoodOnly(c) ==
  cache[c].data # NoData /\ now < cache[c].expiresAt /\ cache[c].data.err = {}

\* `statusCache.data && now < statusCache.expiresAt`
Fresh(c) == cache[c].data # NoData /\ now < cache[c].expiresAt

\* mutant: the in-flight marker is not consulted
PromiseIsNull_Unchecked(c) == TRUE

\* mutant: the two caches share one in-flight marker
PromiseIsNull_Shared(c) == \A x \in Caches : cache[x].promise = NoPromise

\* `!statusCache.promise`
PromiseIsNull(c) == cache[c].promise = NoPromise

\* history: the last successful build of c is less than its TTL old
WithinTtl(c) == builtAt[c].at >= 0 /\ now - builtAt[c].at < TTL(c)

\* history: the last successful build of c (0: none)
LastBuilt(c) == builtAt[c].build

\* mutant: a caller arriving during a build is handed nothing to wait for
Joined_NoWait(c) == NoPromise

\* what a caller is handed while a build is in flight: `return statusCache.promise`
Joined(c) == cache[c].promise

\* getCachedStatusPayload() / getCachedCapabilities(), from the handler's call
\* to the await of what it returns: a cache hit returns the data, otherwise the
\* caller gets the in-flight promise, created here when there is none.
GetCached(r, c) ==
  /\ caller[r].pc = "idle"
  /\ IF Fresh(c)
     THEN /\ caller' = [caller EXCEPT ![r] =
                 [pc |-> "await", c |-> c, p |-> NoPromise,
                  res |-> [kind |-> "value", build |-> cache[c].data.build,
                           err |-> cache[c].data.err],
                  cold |-> ~WithinTtl(c), win |-> window[c],
                  last |-> LastBuilt(c), started |-> FALSE]]
          /\ UNCHANGED <<cache, promise, nbuilds, startsIn>>
     ELSE IF PromiseIsNull(c)
     THEN /\ nbuilds < MaxBuilds
          /\ nbuilds' = nbuilds + 1
          /\ promise' = [promise EXCEPT ![nbuilds + 1] =
                 [c |-> c, state |-> "pending", err |-> {}]]
          /\ cache' = [cache EXCEPT ![c].promise = nbuilds + 1]
          /\ startsIn' = [startsIn EXCEPT ![c] = @ + 1]
          /\ caller' = [caller EXCEPT ![r] =
                 [pc |-> "await", c |-> c, p |-> nbuilds + 1, res |-> NoResult,
                  cold |-> ~WithinTtl(c), win |-> window[c],
                  last |-> LastBuilt(c), started |-> TRUE]]
     ELSE /\ caller' = [caller EXCEPT ![r] =
                 [pc |-> "await", c |-> c, p |-> Joined(c), res |-> NoResult,
                  cold |-> ~WithinTtl(c), win |-> window[c],
                  last |-> LastBuilt(c), started |-> FALSE]]
          /\ UNCHANGED <<cache, promise, nbuilds, startsIn>>
  /\ UNCHANGED <<window, builtAt, lastSettle>>

\* GET /api/status and GET /api/ptz/capabilities call the cache; requests are
\* anonymous, a new one takes the lowest free slot
ApiGet(r) ==
  /\ \A x \in Callers : x < r => caller[x].pc # "idle"
  /\ GetCached(r, resource)
  /\ UNCHANGED <<clockVars, aggVars, presenceVars, streamVars, limitsVars>>

\* the fields of a snapshot that carry an error, by what the camera did
SnapshotErrors(c, cam) ==
  IF c = "status"
  THEN IF cam = "down" THEN Fields ELSE {}
  ELSE IF cam = "down" THEN {"limits"} ELSE {}

\* mutant: the marker is cleared on success only (no finally)
PromiseAfterSettle_NoFinally(b, ok) == IF ok THEN NoPromise ELSE b

\* mutant: the marker is left set when the build succeeds
PromiseAfterSettle_KeptOnSuccess(b, ok) == IF ok THEN b ELSE NoPromise

\* the in-flight marker once build b has settled (the finally block)
PromiseAfterSettle(b, ok) == NoPromise

\* `statusCache.expiresAt = Date.now() + STATUS_CACHE_MS`
ExpiresAt(c) == now + TTL(c)

\* the async builder resumes after `await buildStatusPayload()` (or
\* getPtzLimits()) with the payload: it stores it, sets expiresAt and clears
\* the marker, and its promise is fulfilled.
BuildSettle(b, payloadErr) ==
  LET c == promise[b].c IN
  /\ promise[b].state = "pending"
  /\ cache' = [cache EXCEPT ![c] =
         [data |-> [build |-> b, err |-> payloadErr],
          expiresAt |-> ExpiresAt(c),
          promise |-> PromiseAfterSettle(b, TRUE)]]
  /\ promise' = [promise EXCEPT ![b].state = "fulfilled", ![b].err = payloadErr]
  /\ window' = [window EXCEPT ![c] = @ + 1]
  /\ startsIn' = [startsIn EXCEPT ![c] = 0]
  /\ builtAt' = [builtAt EXCEPT ![c] = [at |-> now, build |-> b]]
  /\ lastSettle' = [lastSettle EXCEPT ![c] = [how |-> "resolved", build |-> b]]
  /\ UNCHANGED <<nbuilds, caller>>

\* a build completes, whatever the camera did meanwhile
BuildResolves(b) ==
  /\ \E cam \in CameraModes : BuildSettle(b, SnapshotErrors(promise[b].c, cam))
  /\ UNCHANGED <<clockVars, aggVars, presenceVars, streamVars, limitsVars>>

\* the awaited build throws: only the finally block runs, the data and
\* expiresAt stay as they were, and the builder's promise is rejected.
BuildThrow(b) ==
  LET c == promise[b].c IN
  /\ promise[b].state = "pending"
  /\ cache' = [cache EXCEPT ![c].promise = PromiseAfterSettle(b, FALSE)]
  /\ promise' = [promise EXCEPT ![b].state = "rejected"]
  /\ window' = [window EXCEPT ![c] = @ + 1]
  /\ startsIn' = [startsIn EXCEPT ![c] = 0]
  /\ lastSettle' = [lastSettle EXCEPT ![c] = [how |-> "rejected", build |-> b]]
  /\ UNCHANGED <<nbuilds, caller, builtAt>>

\* a build is made to throw (no path of buildStatusPayload or getPtzLimits
\* does: each sub-call catches everything)
BuildRejects(b) ==
  /\ Cardinality({x \in BuildIds : promise[x].state = "rejected"}) < MaxFaults
  /\ BuildThrow(b)
  /\ UNCHANGED <<clockVars, aggVars, presenceVars, streamVars, limitsVars>>

\* mutant: only the caller that started the build sees its failure; the
\* others are handed whatever the cache holds
Observe_StarterOnly(r, p) ==
  IF promise[p].state = "fulfilled"
  THEN [kind |-> "value", build |-> p, err |-> promise[p].err]
  ELSE IF caller[r].started
  THEN [kind |-> "error", build |-> p, err |-> {}]
  ELSE [kind |-> "value", build |-> cache[promise[p].c].data.build,
        err |-> cache[promise[p].c].data.err]

\* what a handler awaiting promise p receives once p has settled
Observe(r, p) ==
  IF promise[p].state = "fulfilled"
  THEN [kind |-> "value", build |-> p, err |-> promise[p].err]
  ELSE [kind |-> "error", build |-> p, err |-> {}]

\* the handler resumes after its await: `res.json(payload)`, or the catch
\* block's 502 with the error's message
CallerResume(r) ==
  /\ caller[r].pc = "await"
  /\ IF caller[r].p = NoPromise
     THEN caller' = [caller EXCEPT ![r].pc = "done"]
     ELSE /\ promise[caller[r].p].state \in {"fulfilled", "rejected"}
          /\ caller' = [caller EXCEPT ![r].pc = "done",
                                      ![r].res = Observe(r, caller[r].p)]
  /\ UNCHANGED <<cache, promise, nbuilds, window, startsIn, builtAt, lastSettle>>
  /\ UNCHANGED <<clockVars, aggVars, presenceVars, streamVars, limitsVars>>

\* the request is over; the slot serves the next request
CallerFinish(r) ==
  /\ caller[r].pc = "done"
  /\ caller' = [caller EXCEPT ![r] = IdleCaller]
  /\ UNCHANGED <<cache, promise, nbuilds, window, startsIn, builtAt, lastSettle>>
  /\ UNCHANGED <<clockVars, aggVars, presenceVars, streamVars, limitsVars>>

\* time passes
Tick(d) ==
  /\ now' = now + d
  /\ ticks' = ticks + 1
  /\ UNCHANGED resource

TickCache ==
  /\ ticks < MaxTicks
  /\ \E d \in CacheDeltas(resource) : Tick(d)
  /\ UNCHANGED <<cacheVars, aggVars, presenceVars, streamVars, limitsVars>>

Next ==
  \/ \E r \in Callers : ApiGet(r)
  \/ \E b \in BuildIds : BuildResolves(b)
  \/ \E r \in Callers : CallerResume(r)
  \/ \E r \in Callers : CallerFinish(r)
  \/ TickCache

Spec == Init /\ [][Next]_vars

\* the same program with a build that may throw
NextFault ==
  \/ Next
  \/ \E b \in BuildIds : BuildRejects(b)

FaultSpec == Init /\ [][NextFault]_vars

\* ------------------------------------------------------------------ claims

\* the builds of cache c that are running
Running(c) == {b \in BuildIds : promise[b].state = "pending" /\ promise[b].c = c}

\* the callers of cache c that arrived cold since its last build settled
ColdArrivals(c) ==
  {r \in Callers : caller[r].pc # "idle" /\ caller[r].c = c /\ caller[r].cold
                   /\ caller[r].win = window[c]}

\* C1: the callers that arrive while the cache is cold and before the build
\* completes share one build: one build is started for them, each of them
\* awaits it, and those that have been answered got the same snapshot (or the
\* same error).
C1_Coalescing ==
  /\ \A c \in Caches :
       /\ startsIn[c] <= 1
       /\ ColdArrivals(c) # {} => startsIn[c] = 1
       /\ \A r \in ColdArrivals(c) :
            caller[r].p # NoPromise /\ caller[r].p = cache[c].promise
  /\ \A r1, r2 \in Callers :
       ( /\ caller[r1].pc = "done" /\ caller[r2].pc = "done"
         /\ caller[r1].c = caller[r2].c /\ caller[r1].win = caller[r2].win
         /\ caller[r1].cold /\ caller[r2].cold )
       => caller[r1].res = caller[r2].res

\* two callers that arrived cold in the same window have both been answered
\* with the snapshot of the one build
C1_Witness ==
  \E r1, r2 \in Callers :
    /\ r1 # r2
    /\ caller[r1].pc = "done" /\ caller[r2].pc = "done"
    /\ caller[r1].c = caller[r2].c /\ caller[r1].win = caller[r2].win
    /\ caller[r1].cold /\ caller[r2].cold
    /\ caller[r1].started /\ ~caller[r2].started
    /\ caller[r1].res.kind = "value" /\ caller[r1].res.build = caller[r1].p

\* C2: at most one build of each cache is running, and it is the one the
\* in-flight marker names.
C2_OneBuildInFlight ==
  \A c \in Caches :
    /\ Cardinality(Running(c)) <= 1
    /\ Running(c) = {cache[c].promise} \ {NoPromise}

\* a second caller arrived during a build and waits for it with the first
C2_Witness ==
  \E c \in Caches : \E r1, r2 \in Callers :
    /\ r1 # r2
    /\ Running(c) # {}
    /\ caller[r1].pc = "await" /\ caller[r2].pc = "await"
    /\ caller[r1].p \in Running(c) /\ caller[r2].p = caller[r1].p

\* C3: a call made less than the TTL after the last successful build is
\* answered from the cache with that build's snapshot and starts no build; a
\* call made once the TTL has elapsed (or before any build) is handed a build
\* of that cache to wait for, started by it if none was in flight.
C3_TtlRespected ==
  \A r \in Callers :
    caller[r].pc # "idle" =>
      IF caller[r].cold
      THEN /\ caller[r].p # NoPromise
           /\ promise[caller[r].p].c = caller[r].c
           /\ caller[r].p > caller[r].last
      ELSE /\ caller[r].p = NoPromise
           /\ ~caller[r].started
           /\ caller[r].res.kind = "value"
           /\ caller[r].res.build = caller[r].last

\* one caller was answered from the cache inside the TTL, and another, calling
\* after the TTL of that same build had elapsed, started the next build
C3_Witness ==
  \E r1, r2 \in Callers :
    /\ caller[r1].pc # "idle" /\ ~caller[r1].cold /\ caller[r1].res.build >= 1
    /\ caller[r2].pc # "idle" /\ caller[r2].cold /\ caller[r2].started
    /\ caller[r2].c = caller[r1].c
    /\ caller[r2].last = caller[r1].res.build

\* C4: after a build of cache c has rejected, the in-flight marker is clear
\* until the next build starts, the cache holds no fresh entry, and every call
\* made since is handed a build newer than the rejected one.
C4_FailureClearsForRetry ==
  \A c \in Caches :
    lastSettle[c].how = "rejected" =>
      /\ ~Fresh(c)
      /\ startsIn[c] = 0 => cache[c].promise = NoPromise
      /\ \A r \in Callers :
           (caller[r].pc # "idle" /\ caller[r].c = c /\ caller[r].win = window[c])
             => /\ caller[r].p # NoPromise
                /\ caller[r].p > lastSettle[c].build
                /\ caller[r].p = cache[c].promise

\* a rebuild of a cache that held data rejected, and the first call after the
\* rejection started a new build
C4_Witness ==
  \E c \in Caches : \E r \in Callers :
    /\ lastSettle[c].how = "rejected"
    /\ cache[c].data # NoData
    /\ caller[r].pc = "await" /\ caller[r].c = c /\ caller[r].win = window[c]
    /\ caller[r].started

\* C5: every caller that awaited a build that rejected was answered with
\* that build's error, none with a value.
C5_FailureFanOut ==
  \A r \in Callers :
    ( /\ caller[r].pc = "done"
      /\ caller[r].p # NoPromise
      /\ promise[caller[r].p].state = "rejected" )
    => caller[r].res = [kind |-> "error", build |-> caller[r].p, err |-> {}]

\* the caller that started a build and one that joined it were both answered
\* with its error
C5_Witness ==
  \E r1, r2 \in Callers :
    /\ caller[r1].pc = "done" /\ caller[r2].pc = "done"
    /\ caller[r1].started /\ ~caller[r2].started
    /\ caller[r1].p # NoPromise /\ caller[r2].p = caller[r1].p
    /\ promise[caller[r1].p].state = "rejected"
    /\ caller[r1].res.kind = "error" /\ caller[r2].res.kind = "error"

\* ------------------------------------------- the status aggregator, one build

\* what the camera does with a request: it answers with a 2xx or another
\* status line, or the connection fails; then the body arrives well-formed,
\* malformed, as a JSON error reply (time.cgi), or its stream fails
HeaderEvents == {"ok", "bad"}
BodyEvents == {"text", "junk", "apierr"}

\* a sub-call is suspended in fetchWithTimeout (for its main, alternate or
\* IR request) or in res.text()
AwaitsFetch == {"hdr", "alt_hdr", "ir_hdr"}
AwaitsText == {"body", "alt_body", "errbody", "ir_body"}

\* fetchWithTimeout: the timer is set on entry and cleared in the finally
\* block, when the race is over
TimerArmed(pc) == pc \in AwaitsFetch

Errors == {"err_timeout", "err_http", "err_api", "err_other"}
HasError(res) == res \in Errors

Goto(pc) == [pc |-> pc, res |-> "none"]
Return(res) == [pc |-> "done", res |-> res]

\* mutant: the catch block lets the error through
Caught_Rethrow(ev) == "thrown"

\* `catch (err) { return { error: err.message } }`
Caught(ev) == IF ev = "timeout" THEN "err_timeout" ELSE "err_other"

\* mutant: a non-success answer of the primary path is an error at once
getPtzStatus_NoFallback(pc, ev) ==
  CASE pc = "hdr" ->
         CASE ev = "ok" -> Goto("body")
           [] ev = "bad" -> Goto("errbody")
           [] OTHER -> Return(Caught(ev))
    [] pc = "body" ->
         IF ev = "bodyerr" THEN Return(Caught(ev)) ELSE Return("data")
    [] OTHER -> Return("err_http")

getPtzStatus(pc, ev) ==
  CASE pc = "hdr" ->
         CASE ev = "ok" -> Goto("body")
           [] ev = "bad" -> Goto("alt_hdr")
           [] OTHER -> Return(Caught(ev))
    [] pc = "alt_hdr" ->
         CASE ev = "ok" -> Goto("alt_body")
           [] ev = "bad" -> Goto("errbody")
           [] OTHER -> Return(Caught(ev))
    [] pc \in {"body", "alt_body"} ->
         IF ev = "bodyerr" THEN Return(Caught(ev)) ELSE Return("data")
    [] OTHER -> Return("err_http")

\* mutant: the status line of the geolocation answer is not looked at
getGeolocation_NoOkCheck(pc, ev) ==
  CASE pc = "hdr" ->
         IF ev \in HeaderEvents THEN Goto("body") ELSE Return(Caught(ev))
    [] OTHER -> IF ev = "bodyerr" THEN Return(Caught(ev)) ELSE Return("data")

getGeolocation(pc, ev) ==
  CASE pc = "hdr" ->
         CASE ev = "ok" -> Goto("body")
           [] ev = "bad" -> Goto("errbody")
           [] OTHER -> Return(Caught(ev))
    [] pc = "body" ->
         IF ev = "bodyerr" THEN Return(Caught(ev)) ELSE Return("data")
    [] OTHER -> Return("err_http")

\* the body is read before the status is looked at; a body that is not JSON
\* parses to null
getTime(pc, ev) ==
  CASE pc = "hdr" ->
         CASE ev = "ok" -> Goto("body")
           [] ev = "bad" -> Goto("errbody")
           [] OTHER -> Return(Caught(ev))
    [] OTHER ->
         CASE ev = "bodyerr" -> Return(Caught(ev))
           [] ev = "apierr" -> Return("err_api")
           [] OTHER -> IF pc = "body" THEN Return("data") ELSE Return("err_http")

getDeviceInfo(pc, ev) ==
  CASE pc = "hdr" ->
         CASE ev = "ok" -> Goto("body")
           [] ev = "bad" -> Goto("alt_hdr")
           [] OTHER -> Return(Caught(ev))
    [] pc = "alt_hdr" ->
         CASE ev = "ok" -> Goto("alt_body")
           [] ev = "bad" -> Goto("errbody")
           [] OTHER -> Return(Caught(ev))
    [] pc \in {"body", "alt_body"} ->
         IF ev = "bodyerr" THEN Return(Caught(ev)) ELSE Return("data")
    [] OTHER -> Return("err_http")

\* the IR request is best effort: whatever happens to it, the temperature
\* data is returned
getTemperatureAndIr(pc, ev) ==
  CASE pc = "hdr" ->
         CASE ev = "ok" -> Goto("body")
           [] ev = "bad" -> Goto("errbody")
           [] OTHER -> Return(Caught(ev))
    [] pc = "body" ->
         IF ev = "bodyerr" THEN Return(Caught(ev)) ELSE Goto("ir_hdr")
    [] pc = "ir_hdr" ->
         IF ev = "ok" THEN Goto("ir_body") ELSE Return("data")
    [] pc = "ir_body" -> Return("data")
    [] OTHER -> Return("err_http")

\* the sub-call of field f resumes with event ev
SubCall(f, pc, ev) ==
  CASE f = "optics" -> getPtzStatus(pc, ev)
    [] f = "geolocation" -> getGeolocation(pc, ev)
    [] f = "time" -> getTime(pc, ev)
    [] f = "device" -> getDeviceInfo(pc, ev)
    [] OTHER -> getTemperatureAndIr(pc, ev)

\* history: what the camera did to the main and the alternate request of a
\* sub-call and to the body read for its data
Seen(s, ev) ==
  CASE s.pc = "hdr" -> [main |-> ev, alt |-> s.alt, body |-> s.body]
    [] s.pc = "alt_hdr" -> [main |-> s.main, alt |-> ev, body |-> s.body]
    [] s.pc \in {"body", "alt_body"} -> [main |-> s.main, alt |-> s.alt, body |-> ev]
    [] OTHER -> [main |-> s.main, alt |-> s.alt, body |-> s.body]

Resume(f, ev) ==
  LET s == sub[f]
      t == SubCall(f, s.pc, ev)
      g == Seen(s, ev)
  IN sub' = [sub EXCEPT ![f] =
        [pc |-> t.pc, res |-> t.res, main |-> g.main, alt |-> g.alt, body |-> g.body]]

\* GET /api/status on the cold cache: getCachedStatusPayload() starts the
\* build, buildStatusPayload() calls the five functions, and each runs up to
\* its first await, the main request
AggGet ==
  /\ \A f \in Fields : sub[f].pc = "idle"
  /\ GetCached(1, "status")
  /\ caller'[1].started
  /\ sub' = [f \in Fields |-> [sub[f] EXCEPT !.pc = "hdr"]]
  /\ UNCHANGED <<clockVars, payload, presenceVars, streamVars, limitsVars>>

\* the camera answers a request with a status line and headers
HeadersArrive(f, ev) ==
  /\ sub[f].pc \in AwaitsFetch
  /\ Resume(f, ev)
  /\ UNCHANGED <<clockVars, cacheVars, payload, presenceVars, streamVars, limitsVars>>

\* the request fails (connection refused, reset, ...): fetch rejects
FetchFails(f) ==
  /\ sub[f].pc \in AwaitsFetch
  /\ Resume(f, "neterr")
  /\ UNCHANGED <<clockVars, cacheVars, payload, presenceVars, streamVars, limitsVars>>

\* the timer of fetchWithTimeout fires before the camera has answered
TimerFires(f) ==
  /\ TimerArmed(sub[f].pc)
  /\ Resume(f, "timeout")
  /\ UNCHANGED <<clockVars, cacheVars, payload, presenceVars, streamVars, limitsVars>>

\* the body of the response has been received: res.text() resolves
BodyArrives(f, ev) ==
  /\ sub[f].pc \in AwaitsText
  /\ ev = "apierr" => f = "time"
  /\ Resume(f, ev)
  /\ UNCHANGED <<clockVars, cacheVars, payload, presenceVars, streamVars, limitsVars>>

\* the body stream fails: res.text() rejects
BodyFails(f) ==
  /\ sub[f].pc \in AwaitsText
  /\ Resume(f, "bodyerr")
  /\ UNCHANGED <<clockVars, cacheVars, payload, presenceVars, streamVars, limitsVars>>

\* the fields of the object buildStatusPayload() returns
Snapshot == [fields |-> [f \in Fields |-> sub[f].res], fetchedAt |-> now]

\* Promise.all settles (fulfilled when the five promises are, rejected as
\* soon as one is) and the builder resumes after `await buildStatusPayload()`
AggBuildSettles ==
  LET b == cache["status"].promise IN
  /\ b # NoPromise
  /\ IF \E f \in Fields : sub[f].res = "thrown"
     THEN /\ BuildThrow(b)
          /\ UNCHANGED payload
     ELSE /\ \A f \in Fields : sub[f].pc = "done"
          /\ payload' = Snapshot
          /\ BuildSettle(b, {f \in Fields : HasError(sub[f].res)})
  /\ UNCHANGED <<clockVars, sub, presenceVars, streamVars, limitsVars>>

AggNext ==
  \/ AggGet
  \/ \E f \in Fields : \E ev \in HeaderEvents : HeadersArrive(f, ev)
  \/ \E f \in Fields : FetchFails(f)
  \/ \E f \in Fields : TimerFires(f)
  \/ \E f \in Fields : \E ev \in BodyEvents : BodyArrives(f, ev)
  \/ \E f \in Fields : BodyFails(f)
  \/ AggBuildSettles
  \/ CallerResume(1)
  \/ CallerFinish(1)

AggInit == Init /\ resource = "status"

AggSpec == AggInit /\ [][AggNext]_vars

\* the event loop runs what is ready: a timer that is due fires, a settled
\* promise resumes its awaiters. Nothing obliges the camera to answer.
AggFairness ==
  /\ \A f \in Fields : WF_vars(TimerFires(f))
  /\ WF_vars(AggBuildSettles)
  /\ WF_vars(CallerResume(1))

FairAggSpec == AggInit /\ [][AggNext]_vars /\ AggFairness

\* ---------------------------------------------------- claims, the aggregator

\* the build has resolved and its snapshot is in `payload`
Resolved == lastSettle["status"].how = "resolved"

\* C6: whatever the camera does to the five sub-calls, no sub-call throws and
\* the build never rejects; the snapshot it resolves to has each of the five
\* fields set, to data or to an error, and fetchedAt, and the caller is
\* answered with a value.
C6_AggregatorNeverFails ==
  /\ \A f \in Fields : sub[f].res # "thrown"
  /\ \A b \in BuildIds : promise[b].state # "rejected"
  /\ lastSettle["status"].how # "rejected"
  /\ Resolved =>
       /\ \A f \in Fields : payload.fields[f] \in {"data"} \cup Errors
       /\ payload.fetchedAt >= 0
  /\ caller[1].pc = "done" => caller[1].res.kind = "value"

\* the build resolved although every one of the five fields carries an
\* error, one of them a timeout
C6_Witness ==
  /\ Resolved
  /\ \A f \in Fields : HasError(payload.fields[f])
  /\ \E f \in Fields : payload.fields[f] = "err_timeout"
  /\ caller[1].pc = "done"

\* a sub-call fails when a request it depends on gets no answer (connection
\* failure or timeout), when the camera answers with a non-success status and
\* the sub-call has no alternate request or that one is not answered with
\* success either, when the body it reads for its data cannot be read, or
\* when time.cgi replies with an error object. A body that arrives but is
\* malformed is not a failure (its fields parse to null), nor is a failed
\* IR request.
Failed(f) ==
  LET s == sub[f] IN
  \/ s.main \in {"neterr", "timeout"}
  \/ s.main = "bad" /\ f \notin {"optics", "device"}
  \/ s.main = "bad" /\ s.alt \in {"bad", "neterr", "timeout"}
  \/ s.body \in {"bodyerr", "apierr"}

Threw(s) ==
  \/ s.main \in {"neterr", "timeout"}
  \/ s.alt \in {"neterr", "timeout"}
  \/ s.body = "bodyerr"

\* C21: getPtzStatus queries the alternate path only after the primary path
\* was answered with a non-success status; its result carries an error only
\* when both paths were answered with a non-success status or a call threw;
\* an alternate path answered with success, its body read, gives data.
C21_PtzFallbackOrdering ==
  LET s == sub["optics"] IN
  /\ (s.pc \in {"alt_hdr", "alt_body"} \/ s.alt # "none") => s.main = "bad"
  /\ s.pc = "errbody" => s.main = "bad" /\ s.alt = "bad"
  /\ HasError(s.res) => (s.main = "bad" /\ s.alt = "bad") \/ Threw(s)
  /\ s.res = "err_http" <=> (s.pc = "done" /\ s.main = "bad" /\ s.alt = "bad")
  /\ (s.pc = "done" /\ s.main = "bad" /\ s.alt = "ok" /\ ~Threw(s)) => s.res = "data"

\* the primary path was answered with a non-success status, the alternate
\* path with success, and the sub-call returned data
C21_Witness ==
  LET s == sub["optics"] IN
  /\ s.pc = "done"
  /\ s.main = "bad" /\ s.alt = "ok" /\ s.body = "text"
  /\ s.res = "data"

\* C8: every sub-call that has started eventually returns, and a build that
\* has started eventually completes and clears the in-flight marker.
C8_NoHang ==
  /\ \A f \in Fields : (sub[f].pc # "idle") ~> (sub[f].pc = "done")
  /\ (cache["status"].promise # NoPromise) ~> (cache["status"].promise = NoPromise)

\* the camera has sent the headers of the geolocation answer: the sub-call
\* awaits the body with no timer armed, while the others have returned and
\* the build is in flight
C8_Witness ==
  /\ sub["geolocation"].pc = "body"
  /\ ~TimerArmed(sub["geolocation"].pc)
  /\ \A f \in Fields \ {"geolocation"} : sub[f].pc = "done"
  /\ cache["status"].promise # NoPromise

\* ------------------------------------------------------- the viewer registry

\* the clock advances by a millisecond or to just below a heartbeat's TTL
PresenceDeltas == {1, VIEWER_HEARTBEAT_TTL_MS - 1}

\* `const threshold = Date.now() - VIEWER_HEARTBEAT_TTL_MS`
Threshold == now - VIEWER_HEARTBEAT_TTL_MS

\* mutant: an entry is dropped as soon as its age reaches the TTL
Expired_AtTtl(ts) == ts <= Threshold

\* `ts < threshold`
Expired(ts) == ts < Threshold

\* mutant: the sweep deletes nothing
cleanupViewerHeartbeats_Keep(m) == m

\* the map after cleanupViewerHeartbeats()
cleanupViewerHeartbeats(m) == {e \in m : ~Expired(e.ts)}

\* mutant: every heartbeat adds an entry
MapSet_Append(m, id, ts) == m \cup {[id |-> id, ts |-> ts]}

\* `viewerHeartbeats.set(id, ts)`: the entry of a key is replaced
MapSet(m, id, ts) == {e \in m : e.id # id} \cup {[id |-> id, ts |-> ts]}

\* the map after recordViewerHeartbeat(id), for a truthy id
recordViewerHeartbeat(m, id) == cleanupViewerHeartbeats(MapSet(m, id, now))

\* the keys of the map
Keys(m) == {e.id : e \in m}

\* `viewerHeartbeats.size`
Size(m) == Cardinality(m)

\* `{ count: getViewerCount() }`, with the ids the count stands for
CountOf(m) == [kind |-> "count", count |-> Size(m), ids |-> Keys(m)]

\* mutant: the count is taken without sweeping first
getViewerCount_NoSweep(m) == m

\* getViewerCount(): the map it leaves, whose size it returns
getViewerCount(m) == cleanupViewerHeartbeats(m)

\* POST /api/viewers/heartbeat with a non-empty string id
PostHeartbeat(id) ==
  LET m == getViewerCount(recordViewerHeartbeat(viewerHeartbeats, id)) IN
  /\ viewerHeartbeats' = m
  /\ lastHb' = [lastHb EXCEPT ![id] = now]
  /\ hbVia' = [hbVia EXCEPT ![id] = @ \cup {"post"}]
  /\ resp' = CountOf(m)
  /\ UNCHANGED <<clockVars, cacheVars, aggVars, streamVars, limitsVars>>

\* POST /api/viewers/heartbeat with the id missing, empty or not a string
PostHeartbeatInvalid ==
  /\ resp' = [kind |-> "400", count |-> 0, ids |-> {}]
  /\ UNCHANGED <<viewerHeartbeats, lastHb, hbVia>>
  /\ UNCHANGED <<clockVars, cacheVars, aggVars, streamVars, limitsVars>>

\* what a request to the heartbeat endpoint carries as `req.body?.id`: a
\* string (NoId: the empty one), nothing, or a value of another type
Bodies ==
  {[t |-> "string", v |-> id] : id \in ViewerIds \cup {NoId}}
    \cup {[t |-> "undefined", v |-> NoId], [t |-> "number", v |-> NoId],
          [t |-> "number", v |-> 1]}

\* `!id`
Falsy(x) == x.t = "undefined" \/ x.v = NoId

\* mutant: the type of the id is not looked at
IdAccepted_Truthy(x) == ~Falsy(x)

\* the negation of `!id || typeof id !== "string"`
IdAccepted(x) == ~(Falsy(x) \/ x.t # "string")

\* POST /api/viewers/heartbeat
HeartbeatRequest(x) ==
  IF IdAccepted(x) THEN PostHeartbeat(x.v) ELSE PostHeartbeatInvalid

\* GET /api/viewers
GetViewers ==
  LET m == getViewerCount(viewerHeartbeats) IN
  /\ viewerHeartbeats' = m
  /\ resp' = CountOf(m)
  /\ UNCHANGED <<lastHb, hbVia>>
  /\ UNCHANGED <<clockVars, cacheVars, aggVars, streamVars, limitsVars>>

\* time passes; the last response is no longer the current one
TickPresence ==
  /\ ticks < MaxPresenceTicks
  /\ \E d \in PresenceDeltas : Tick(d)
  /\ resp' = NoResp
  /\ UNCHANGED <<viewerHeartbeats, lastHb, hbVia, cacheVars, aggVars, streamVars, limitsVars>>

PresenceNext ==
  \/ \E x \in Bodies : HeartbeatRequest(x)
  \/ GetViewers
  \/ TickPresence

PresenceInit == Init /\ resource = "status"

PresenceSpec == PresenceInit /\ [][PresenceNext]_vars

\* ------------------------------------------------------ claims, the registry

\* how long ago the last heartbeat of id was recorded
Age(id) == now - lastHb[id]

\* C9: a count taken less than the TTL after the last heartbeat of a viewer
\* (up to T + TTL - 1) includes the viewer, and a count taken more than the
\* TTL after it (from T + TTL + 1) does not.
C9_PresenceExpiry ==
  resp.kind = "count" =>
    \A id \in ViewerIds :
      lastHb[id] # Absent =>
        /\ Age(id) <= VIEWER_HEARTBEAT_TTL_MS - 1 => id \in resp.ids
        /\ Age(id) >= VIEWER_HEARTBEAT_TTL_MS + 1 => id \notin resp.ids

\* GET /api/viewers counted a viewer last heard TTL - 1 ms ago and left out
\* one last heard TTL + 1 ms ago
C9_Witness ==
  /\ resp.kind = "count"
  /\ \E id1, id2 \in ViewerIds :
       /\ lastHb[id1] # Absent /\ Age(id1) = VIEWER_HEARTBEAT_TTL_MS + 1
       /\ lastHb[id2] # Absent /\ Age(id2) = VIEWER_HEARTBEAT_TTL_MS - 1
       /\ id1 \notin resp.ids /\ id2 \in resp.ids

\* C10: the count of every response is the number of viewer ids whose last
\* heartbeat is at most the TTL old at that moment.
C10_CountNeverStale ==
  resp.kind = "count" =>
    resp.count = Cardinality({id \in ViewerIds :
                    lastHb[id] # Absent /\ Age(id) <= VIEWER_HEARTBEAT_TTL_MS})

\* a count of 1 that includes a viewer last heard exactly the TTL ago, while
\* another viewer has expired
C10_Witness ==
  /\ resp.kind = "count" /\ resp.count = 1
  /\ \E id1, id2 \in ViewerIds :
       /\ lastHb[id1] # Absent /\ Age(id1) = VIEWER_HEARTBEAT_TTL_MS
       /\ lastHb[id2] # Absent /\ Age(id2) > VIEWER_HEARTBEAT_TTL_MS

\* C19: a heartbeat request whose id is a non-empty string is answered with a
\* count of at least 1 that includes the id, and the registry then holds the
\* id with the current time; any other request is answered with 400 and
\* leaves the registry as it was.
C19_HeartbeatEndpoint ==
  [][\A x \in Bodies :
       HeartbeatRequest(x) =>
         IF x.t = "string" /\ x.v # NoId
         THEN /\ resp'.kind = "count" /\ resp'.count >= 1 /\ x.v \in resp'.ids
              /\ [id |-> x.v, ts |-> now] \in viewerHeartbeats'
         ELSE /\ resp'.kind = "400"
              /\ viewerHeartbeats' = viewerHeartbeats]_vars

\* a request without a usable id was refused while the registry held a
\* viewer recorded by an earlier request
C19_Witness ==
  /\ resp.kind = "400"
  /\ \E id \in ViewerIds : "post" \in hbVia[id] /\ id \in Keys(viewerHeartbeats)

\* ------------------------------------------- the PTZ limits, one build of caps

\* what the camera sends as the value of a PTZ.Limit.L1 key: the key is
\* missing, or its value is empty, not a number, "Infinity", or a number
RawValues == {"absent", "empty", "text", "Infinity", "number"}

\* `Number(v)`: undefined and text give NaN, the empty string gives 0
NumberOf(v) ==
  CASE v = "number" -> [finite |-> TRUE, n |-> 42]
    [] v = "empty" -> [finite |-> TRUE, n |-> 0]
    [] OTHER -> [finite |-> FALSE, n |-> 0]

\* `toNumber(v, fallback)`
toNumber(v, fallback) ==
  [set |-> TRUE, n |-> IF NumberOf(v).finite THEN NumberOf(v).n ELSE fallback]

\* the fallback written next to each key
Fallback(k) ==
  CASE k = "minZoom" -> PTZ_MIN_ZOOM_DEFAULT
    [] k = "maxZoom" -> PTZ_MAX_ZOOM_DEFAULT
    [] k \in {"minPan", "minTilt"} -> -172
    [] OTHER -> 172

\* the object returned when the answer is not ok, and by the catch block
LimitsOnFailure ==
  [k \in LimitKeys |->
     IF k \in {"minZoom", "maxZoom"} THEN [set |-> TRUE, n |-> Fallback(k)] ELSE Unset]

\* the object returned from a body that was read
LimitsParsed(raw) == [k \in LimitKeys |-> toNumber(raw[k], Fallback(k))]

\* getPtzLimits() resumes with event ev (and, for a body, its values)
getPtzLimits(l, ev, raw) ==
  CASE l.pc = "hdr" /\ ev = "ok" ->
         [l EXCEPT !.pc = "body", !.hdr = ev]
    [] l.pc = "body" /\ ev = "text" ->
         [l EXCEPT !.pc = "done", !.raw = raw, !.res = LimitsParsed(raw)]
    [] OTHER ->
         [pc |-> "done", hdr |-> IF l.pc = "hdr" THEN ev ELSE l.hdr, raw |-> l.raw,
          res |-> LimitsOnFailure, error |-> TRUE]

\* GET /api/ptz/capabilities on the cold cache: getCachedCapabilities() starts
\* the build and getPtzLimits() runs up to its request
CapsGet ==
  /\ limits.pc = "idle"
  /\ GetCached(1, "caps")
  /\ caller'[1].started
  /\ limits' = [limits EXCEPT !.pc = "hdr"]
  /\ UNCHANGED <<clockVars, aggVars, presenceVars, streamVars>>
  /\ UNCHANGED <<parse, client>>

\* the camera answers the limits request, the request fails, or the timer of
\* fetchWithTimeout fires first
LimitsHeaders(ev) ==
  /\ limits.pc = "hdr"
  /\ limits' = getPtzLimits(limits, ev, limits.raw)
  /\ UNCHANGED <<clockVars, cacheVars, aggVars, presenceVars, streamVars>>
  /\ UNCHANGED <<parse, client>>

\* the body has been received
LimitsBody ==
  /\ limits.pc = "body"
  /\ \E raw \in [LimitKeys -> RawValues] : limits' = getPtzLimits(limits, "text", raw)
  /\ UNCHANGED <<clockVars, cacheVars, aggVars, presenceVars, streamVars>>
  /\ UNCHANGED <<parse, client>>

\* the body stream fails
LimitsBodyFails ==
  /\ limits.pc = "body"
  /\ limits' = getPtzLimits(limits, "bodyerr", limits.raw)
  /\ UNCHANGED <<clockVars, cacheVars, aggVars, presenceVars, streamVars>>
  /\ UNCHANGED <<parse, client>>

\* the builder resumes after `await getPtzLimits()` and stores the object
CapsBuildSettles ==
  /\ limits.pc = "done"
  /\ cache["caps"].promise # NoPromise
  /\ BuildSettle(cache["caps"].promise, IF limits.error THEN {"limits"} ELSE {})
  /\ UNCHANGED <<clockVars, aggVars, presenceVars, streamVars, limitsVars>>

LimitsNext ==
  \/ CapsGet
  \/ \E ev \in HeaderEvents \cup {"neterr", "timeout"} : LimitsHeaders(ev)
  \/ LimitsBody
  \/ LimitsBodyFails
  \/ CapsBuildSettles
  \/ CallerResume(1)
  \/ CallerFinish(1)

LimitsInit == Init /\ resource = "caps"

LimitsSpec == LimitsInit /\ [][LimitsNext]_vars

\* the capabilities object has been stored in capsCache
CapsStored == lastSettle["caps"].how = "resolved"

\* C18: the capabilities object stored in the cache has each of the six
\* limits set, to the number the camera sent or to its fallback.
C18_AllSixLimits ==
  CapsStored =>
    \A k \in LimitKeys :
      /\ limits.res[k].set
      /\ limits.res[k].n = IF limits.raw[k] = "number" /\ ~limits.error
                           THEN NumberOf("number").n ELSE Fallback(k)

\* the camera answered the limits request with a non-success status: the
\* object stored has the zoom fallbacks and no pan or tilt limit
C18_Witness ==
  /\ CapsStored
  /\ limits.hdr = "bad"
  /\ limits.res["minZoom"].set /\ limits.res["maxZoom"].set
  /\ \A k \in LimitKeys \ {"minZoom", "maxZoom"} : ~limits.res[k].set

\* ------------------------------------------------ the telemetry push stream

\* `sendSse(res, event, data)`: a write to the response, which reaches the
\* client while the connection is open; after res.end() it is a write to an
\* ended response
sendSse(k, ev) ==
  IF k.st = "closed" THEN [k EXCEPT !.late = @ \cup {ev}]
  ELSE [k EXCEPT !.wrote = Append(@, ev)]

\* mutant: the heartbeat is recorded whether or not an id was supplied
RecordIf_Always(m, id) == recordViewerHeartbeat(m, id)

\* mutant: the connection's id is not recorded
RecordIf_Never(m, id) == m

\* `if (viewerId) recordViewerHeartbeat(viewerId)`
RecordIf(m, id) == IF id = NoId THEN m ELSE recordViewerHeartbeat(m, id)

\* mutant: the presence tick only counts
RecordOnPing_None(m, id) == m

\* the heartbeat of sendViewerCount
RecordOnPing(m, id) == RecordIf(m, id)

\* the registry and its history after a heartbeat of id recorded in way `via`
Heartbeat(m, id, via) ==
  /\ viewerHeartbeats' = m
  /\ lastHb' = IF id = NoId THEN lastHb ELSE [lastHb EXCEPT ![id] = now]
  /\ hbVia' = IF id = NoId THEN hbVia ELSE [hbVia EXCEPT ![id] = @ \cup {via}]

\* what a call of getCachedStatusPayload() made now returns to its awaiter:
\* the value (NoPromise) or the promise of the build in flight, new or joined
Awaited(c) ==
  IF Fresh(c) THEN NoPromise
  ELSE IF PromiseIsNull(c) THEN nbuilds + 1 ELSE Joined(c)

\* whether that call starts a build
Starts(c) == ~Fresh(c) /\ PromiseIsNull(c)

\* the cache after that call
CacheRead(c) ==
  IF Starts(c)
  THEN /\ nbuilds < MaxBuilds
       /\ nbuilds' = nbuilds + 1
       /\ promise' = [promise EXCEPT ![nbuilds + 1] =
              [c |-> c, state |-> "pending", err |-> {}]]
       /\ cache' = [cache EXCEPT ![c].promise = nbuilds + 1]
       /\ startsIn' = [startsIn EXCEPT ![c] = @ + 1]
       /\ UNCHANGED <<caller, window, builtAt, lastSettle>>
  ELSE UNCHANGED cacheVars

\* mutant: a fresh cached value is written without waiting
sendStatus_Sync(k) ==
  IF Fresh("status") THEN [k EXCEPT !.wrote = Append(@, "status")]
  ELSE [k EXCEPT !.awaits = Append(@, Awaited("status")),
                 !.started = IF Starts("status") THEN @ \cup {nbuilds + 1} ELSE @]

\* `void sendStatus()` up to its await
sendStatus(k) ==
  [k EXCEPT !.awaits = Append(@, Awaited("status")),
            !.started = IF Starts("status") THEN @ \cup {nbuilds + 1} ELSE @]

\* a promise continuation is ready to run: they run before any timer,
\* request or close event is handled
Settled(p) ==
  IF p = NoPromise THEN TRUE ELSE promise[p].state \in {"fulfilled", "rejected"}


MicrotaskReady ==
  \E c \in DOMAIN conn : conn[c].awaits # <<>> /\ Settled(Head(conn[c].awaits))

\* sendViewerCount(), from registry m: heartbeat, sweep, count
sendViewerCount(m, id, via) ==
  LET m2 == getViewerCount(RecordOnPing(m, id)) IN
  /\ Heartbeat(m2, id, via)
  /\ resp' = CountOf(m2)

\* mutant: the timer is left running
clearInterval_Noop(t) == t

\* `clearInterval(t)`
clearInterval(t) == NoTimer

\* mutant: closing the connection that started the build drops the build
CacheAfterClose_Cancel(k) ==
  [cache EXCEPT !["status"].promise =
     IF @ \in k.started THEN NoPromise ELSE @]

\* the close handler does not touch the cache
CacheAfterClose(k) == cache

\* GET /api/telemetry/stream?id=..: the handler runs to its end: heartbeat,
\* connected event, status push started, viewers event, both timers set
StreamOpen(c, id) ==
  LET k0 == [NoConn EXCEPT !.st = "open", !.id = id,
                           !.heartbeatId = now + VIEWER_STREAM_PING_MS,
                           !.statusId = now + TELEMETRY_PUSH_INTERVAL_MS]
  IN
  /\ ~MicrotaskReady
  /\ conn[c].st = "none"
  /\ \A x \in DOMAIN conn : x < c => conn[x].st # "none"
  /\ sendViewerCount(RecordIf(viewerHeartbeats, id), id, "open")
  /\ CacheRead("status")
  /\ conn' = [conn EXCEPT ![c] =
        sendSse(sendStatus(sendSse(k0, "connected")), "viewers")]
  /\ UNCHANGED <<clockVars, aggVars, limitsVars>>

\* mutant: the presence timer waits for the connection's status push
PingTick_AfterStatus(c) ==
  LET k == conn[c] IN
  /\ ~MicrotaskReady
  /\ k.awaits = <<>>
  /\ k.heartbeatId # NoTimer /\ k.heartbeatId <= now
  /\ sendViewerCount(viewerHeartbeats, k.id, "tick")
  /\ conn' = [conn EXCEPT ![c] =
        sendSse([k EXCEPT !.heartbeatId = @ + VIEWER_STREAM_PING_MS], "viewers")]
  /\ UNCHANGED <<clockVars, cacheVars, aggVars, limitsVars>>

\* the presence timer of a connection fires: sendViewerCount
PingTick(c) ==
  LET k == conn[c] IN
  /\ ~MicrotaskReady
  /\ k.heartbeatId # NoTimer /\ k.heartbeatId <= now
  /\ sendViewerCount(viewerHeartbeats, k.id, "tick")
  /\ conn' = [conn EXCEPT ![c] =
        sendSse([k EXCEPT !.heartbeatId = @ + VIEWER_STREAM_PING_MS], "viewers")]
  /\ UNCHANGED <<clockVars, cacheVars, aggVars, limitsVars>>

\* the status timer of a connection fires: sendStatus up to its await
StatusTick(c) ==
  LET k == conn[c] IN
  /\ ~MicrotaskReady
  /\ k.statusId # NoTimer /\ k.statusId <= now
  /\ CacheRead("status")
  /\ conn' = [conn EXCEPT ![c] =
        sendStatus([k EXCEPT !.statusId = @ + TELEMETRY_PUSH_INTERVAL_MS])]
  /\ UNCHANGED <<clockVars, aggVars, presenceVars, limitsVars>>

\* mutant: a failed status fetch ends the connection
OnStatusError_End(k) ==
  [k EXCEPT !.st = "closed", !.heartbeatId = NoTimer, !.statusId = NoTimer]

\* the catch block of sendStatus: a status-error event, nothing else
OnStatusError(k) == sendSse(k, "status-error")

\* sendStatus resumes after its await: a status event, or from the catch
\* block a status-error event
StatusResume(c) ==
  LET k == conn[c]
      p == Head(k.awaits)
      k2 == [k EXCEPT !.awaits = Tail(@),
                      !.got = IF p = NoPromise THEN @ ELSE @ \cup {p}]
  IN
  /\ k.awaits # <<>>
  /\ Settled(p)
  /\ conn' = [conn EXCEPT ![c] =
        IF p # NoPromise /\ promise[p].state = "rejected"
        THEN OnStatusError(k2) ELSE sendSse(k2, "status")]
  /\ UNCHANGED <<clockVars, cacheVars, aggVars, presenceVars, limitsVars>>

\* the client goes away: the close handler clears both timers and ends the
\* response
StreamClose(c) ==
  LET k == conn[c] IN
  /\ ~MicrotaskReady
  /\ k.st = "open"
  /\ conn' = [conn EXCEPT ![c] =
        [k EXCEPT !.st = "closed",
                  !.heartbeatId = clearInterval(@),
                  !.statusId = clearInterval(@),
                  !.left = {b \in k.started : promise[b].state = "pending"}]]
  /\ cache' = CacheAfterClose(k)
  /\ UNCHANGED <<promise, nbuilds, caller, window, startsIn, builtAt, lastSettle>>
  /\ UNCHANGED <<clockVars, aggVars, presenceVars, limitsVars>>

\* the timers that are set, and the time the next of them is due
Timers ==
  ({conn[c].heartbeatId : c \in DOMAIN conn}
     \cup {conn[c].statusId : c \in DOMAIN conn}) \ {NoTimer}
NextDue == CHOOSE t \in Timers : \A u \in Timers : t <= u

\* time passes until the next timer is due
StreamAdvance ==
  /\ ~MicrotaskReady
  /\ ticks < MaxStreamTicks
  /\ Timers # {}
  /\ NextDue > now
  /\ Tick(NextDue - now)
  /\ resp' = NoResp
  /\ UNCHANGED <<viewerHeartbeats, lastHb, hbVia, cacheVars, aggVars, streamVars, limitsVars>>

\* the build of the status cache completes
StreamBuildResolves(b) ==
  /\ ~MicrotaskReady
  /\ BuildResolves(b)

\* each connection is opened under its own id or under none (connections
\* that share an id are the subject of HeartbeatSpec)
StreamNext ==
  \/ \E c \in Conns : \E id \in {c, NoId} : StreamOpen(c, id)
  \/ \E c \in Conns : PingTick(c)
  \/ \E c \in Conns : StatusTick(c)
  \/ \E c \in Conns : StatusResume(c)
  \/ \E c \in Conns : StreamClose(c)
  \/ StreamAdvance
  \/ \E b \in BuildIds : StreamBuildResolves(b)

StreamInit == Init /\ resource = "status"

StreamSpec == StreamInit /\ [][StreamNext]_vars

\* the build of the status cache is made to throw
StreamBuildRejects(b) ==
  /\ ~MicrotaskReady
  /\ BuildRejects(b)

StreamFaultNext ==
  \/ StreamNext
  \/ \E b \in BuildIds : StreamBuildRejects(b)

StreamFaultSpec == StreamInit /\ [][StreamFaultNext]_vars

\* the event loop runs a continuation whose promise has settled
FairStreamSpec ==
  StreamSpec /\ \A c \in Conns : WF_vars(StatusResume(c))

\* ------------------------------------------------------- claims, the stream

\* C14: no event is written to a connection once its close has been handled.
C14_NoWriteAfterClose ==
  \A c \in Conns : conn[c].late = {}

\* a connection was closed while its first status push awaited the build; the
\* build completed and the push wrote its status event to the ended response
C14_Witness ==
  \E c \in Conns :
    /\ conn[c].st = "closed"
    /\ conn[c].left # {}
    /\ "status" \in conn[c].late

\* C15: a closed connection has neither of its timers set and none of its
\* ticks fires; a connection is closed once, and closing it leaves every
\* other connection, timers included, as it was.
C15_TimerTeardown ==
  /\ [](\A c \in Conns :
          conn[c].st = "closed" =>
            conn[c].heartbeatId = NoTimer /\ conn[c].statusId = NoTimer)
  /\ [][\A c \in Conns :
          /\ conn[c].st = "closed" => ~PingTick(c) /\ ~StatusTick(c) /\ ~StreamClose(c)
          /\ StreamClose(c) => \A d \in Conns \ {c} : conn'[d] = conn[d]]_vars

\* one connection is closed, its timers cleared, and the presence timer of
\* another has fired since and is set for its next tick
C15_Witness ==
  \E c, d \in Conns :
    /\ conn[c].st = "closed"
    /\ conn[c].heartbeatId = NoTimer /\ conn[c].statusId = NoTimer
    /\ conn[d].st = "open"
    /\ conn[d].statusId # NoTimer
    /\ conn[d].heartbeatId > now
    /\ Len(SelectSeq(conn[d].wrote, LAMBDA e : e = "viewers")) >= 2

\* the status and status-error events written to a connection
StatusEvents(c) ==
  SelectSeq(conn[c].wrote, LAMBDA e : e \in {"status", "status-error"})

\* C16: opening a connection records a heartbeat exactly when an id is
\* supplied, writes one viewers event and starts one status push in the same
\* step, before any timer tick; the status (or status-error) event of that
\* push is written once the cache read has settled.
C16_ImmediateFirstPush ==
  /\ [][\A c \in Conns : \A id \in ViewerIds \cup {NoId} :
          StreamOpen(c, id) =>
            /\ id # NoId => [id |-> id, ts |-> now] \in viewerHeartbeats'
            /\ id = NoId => viewerHeartbeats' \subseteq viewerHeartbeats
            /\ conn'[c].wrote = <<"connected", "viewers">>
            /\ resp' = CountOf(viewerHeartbeats')
            /\ Len(conn'[c].awaits) = 1
            /\ now' = now
            /\ conn'[c].heartbeatId > now /\ conn'[c].statusId > now]_vars
  /\ [](\A c \in Conns :
          conn[c].st = "open" => conn[c].awaits # <<>> \/ StatusEvents(c) # <<>>)
  /\ \A c \in Conns :
       (/\ conn[c].st = "open"
        /\ StatusEvents(c) = <<>>
        /\ conn[c].awaits # <<>>
        /\ Settled(Head(conn[c].awaits)))
         ~> (StatusEvents(c) # <<>>)

\* a connection opened without an id and one opened with an id have each
\* received their first status event, and no timer has fired yet
C16_Witness ==
  \E c, d \in Conns :
    /\ conn[c].st = "open" /\ conn[c].id = NoId
    /\ conn[d].st = "open" /\ conn[d].id # NoId
    /\ Keys(viewerHeartbeats) = {conn[d].id}
    /\ conn[c].wrote = <<"connected", "viewers", "status">>
    /\ conn[d].wrote = <<"connected", "viewers", "status">>
    /\ ticks = 0
    /\ conn[c].heartbeatId > now /\ conn[c].statusId > now

\* the builds that were in flight when the connection that started them closed
Orphaned == UNION {conn[c].left : c \in Conns}

\* C20: a build whose starting connection closed while it was in flight stays
\* in flight under the marker; when it completes it stores its result with
\* expiresAt one TTL ahead and clears the marker; it is never rejected, and
\* each open connection that awaited it is written a status event.
C20_NoCancellation ==
  /\ [](\A b \in Orphaned :
          /\ promise[b].state \in {"pending", "fulfilled"}
          /\ promise[b].state = "pending" => cache["status"].promise = b
          /\ promise[b].state = "fulfilled" => cache["status"].promise # b)
  /\ [][\A b \in Orphaned :
          /\ BuildResolves(b) =>
               /\ cache'["status"].data.build = b
               /\ cache'["status"].expiresAt = now + STATUS_CACHE_MS
               /\ cache'["status"].promise = NoPromise
               /\ promise'[b].state = "fulfilled"
          /\ \A d \in Conns :
               (/\ StatusResume(d)
                /\ Head(conn[d].awaits) = b
                /\ conn[d].st = "open") =>
                 conn'[d].wrote = Append(conn[d].wrote, "status")]_vars

\* a connection started a build and closed before it completed; the build
\* completed and stored its result, and a connection that had joined it was
\* written the status event
C20_Witness ==
  \E c, d \in Conns : \E b \in conn[c].left :
    /\ conn[c].st = "closed"
    /\ promise[b].state = "fulfilled"
    /\ cache["status"].data.build = b
    /\ cache["status"].promise = NoPromise
    /\ conn[d].st = "open"
    /\ b \in conn[d].got \ conn[d].started
    /\ StatusEvents(d) # <<>>

\* the connection's sendStatus is about to resume from a rejected read
ResumesRejected(d) ==
  /\ conn[d].awaits # <<>>
  /\ Head(conn[d].awaits) # NoPromise
  /\ promise[Head(conn[d].awaits)].state = "rejected"

\* C17: when the status read a connection awaits is rejected, that connection
\* is written a status-error event and stays as open as it was with both
\* timers as they were, no other connection changes, and the rejected build
\* has left the marker, so that the next status tick reads the cache anew.
C17_StatusFailureNonFatal ==
  /\ [][\A d \in Conns :
          (StatusResume(d) /\ ResumesRejected(d)) =>
            /\ conn[d].st = "open" =>
                 conn'[d].wrote = Append(conn[d].wrote, "status-error")
            /\ conn'[d].st = conn[d].st
            /\ conn'[d].heartbeatId = conn[d].heartbeatId
            /\ conn'[d].statusId = conn[d].statusId
            /\ \A e \in Conns \ {d} : conn'[e] = conn[e]]_vars
  /\ [][\A b \in BuildIds : BuildRejects(b) => conn' = conn]_vars
  /\ [](\A b \in BuildIds :
          promise[b].state = "rejected" => cache["status"].promise # b)
  /\ [][\A d \in Conns :
          (/\ StatusTick(d)
           /\ lastSettle["status"].how = "rejected"
           /\ cache["status"].promise = NoPromise
           /\ ~Fresh("status")) =>
            /\ nbuilds' = nbuilds + 1
            /\ conn'[d].awaits = Append(conn[d].awaits, nbuilds + 1)]_vars

\* a connection was written status-error for its first push, is open with
\* both timers set, and its next status tick started a build that gave it a
\* status event; another connection stayed open throughout
C17_Witness ==
  \E d, e \in Conns :
    /\ d # e
    /\ conn[d].st = "open" /\ conn[e].st = "open"
    /\ conn[d].heartbeatId # NoTimer /\ conn[d].statusId # NoTimer
    /\ conn[e].heartbeatId # NoTimer /\ conn[e].statusId # NoTimer
    /\ StatusEvents(d) = <<"status-error", "status">>
    /\ Cardinality(conn[d].started) = 2

\* ------------------------------------------- presence over open connections

\* nothing is in flight: no continuation is ready and no build is pending
\* (the camera answers before the next request or timer)
Quiet ==
  /\ ~MicrotaskReady
  /\ \A b \in BuildIds : promise[b].state # "pending"

QuietOpen(c, id) == Quiet /\ StreamOpen(c, id)
QuietPing(c) == Quiet /\ PingTick(c)
QuietStatus(c) == Quiet /\ StatusTick(c)
QuietClose(c) == Quiet /\ StreamClose(c)
QuietPost(x) == Quiet /\ HeartbeatRequest(x)
QuietGet == Quiet /\ GetViewers
QuietAdvance == Quiet /\ StreamAdvance

\* the camera is up and the build completes
QuietBuild(b) ==
  /\ StreamBuildResolves(b)
  /\ promise'[b].err = {}

\* heartbeats from the endpoint, from connections being opened and from
\* their presence timers, in any order
HeartbeatNext ==
  \/ \E c \in Conns : \E id \in ViewerIds \cup {NoId} : QuietOpen(c, id)
  \/ \E c \in Conns : QuietPing(c)
  \/ \E c \in Conns : QuietStatus(c)
  \/ \E c \in Conns : StatusResume(c)
  \/ \E c \in Conns : QuietClose(c)
  \/ \E x \in Bodies : QuietPost(x)
  \/ QuietGet
  \/ \E b \in BuildIds : QuietBuild(b)
  \/ QuietAdvance

HeartbeatSpec == StreamInit /\ [][HeartbeatNext]_vars

\* the three push connections of the end-to-end scenario
ScenarioConns == {1, 2, 3}

\* the connections of the scenario are made at the start, each under its own
\* id or under none
ScenarioOpen(c, id) == now = 0 /\ QuietOpen(c, id)

\* a status tick that is due cannot be taken: it would start a build beyond
\* MaxBuilds
Capped(c) ==
  /\ conn[c].statusId # NoTimer /\ conn[c].statusId <= now
  /\ Starts("status") /\ nbuilds >= MaxBuilds

\* a timer of connection c is due and its tick can be taken
Due(c) ==
  \/ conn[c].heartbeatId # NoTimer /\ conn[c].heartbeatId <= now
  \/ conn[c].statusId # NoTimer /\ conn[c].statusId <= now /\ ~Capped(c)

Later == {t \in Timers : t > now}

\* time passes until the next timer is due; the presence timers go on when
\* the builds are used up
ScenarioAdvance ==
  /\ Quiet
  /\ ticks < MaxScenarioTicks
  /\ \A c \in DOMAIN conn : ~Due(c)
  /\ Later # {}
  /\ Tick((CHOOSE t \in Later : \A u \in Later : t <= u) - now)
  /\ resp' = NoResp
  /\ UNCHANGED <<viewerHeartbeats, lastHb, hbVia, cacheVars, aggVars, streamVars, limitsVars>>

ScenarioNext ==
  \/ \E c \in ScenarioConns : \E id \in {c, NoId} : ScenarioOpen(c, id)
  \/ \E c \in ScenarioConns : QuietPing(c)
  \/ \E c \in ScenarioConns : QuietStatus(c)
  \/ \E c \in ScenarioConns : StatusResume(c)
  \/ \E c \in ScenarioConns : QuietClose(c)
  \/ QuietGet
  \/ \E b \in BuildIds : QuietBuild(b)
  \/ ScenarioAdvance

ScenarioInit ==
  /\ InitButConn
  /\ resource = "status"
  /\ conn = [c \in ScenarioConns |-> NoConn]

ScenarioSpec == ScenarioInit /\ [][ScenarioNext]_vars

\* ------------------------------------------------------ claims, presence

\* C11: however often and by whichever way a viewer id is heartbeated, the
\* registry holds at most one entry for it, that entry carries the time of
\* its latest heartbeat, and a reported count counts each id once.
C11_IdempotentHeartbeat ==
  /\ \A id \in ViewerIds : Cardinality({e \in viewerHeartbeats : e.id = id}) <= 1
  /\ \A e \in viewerHeartbeats : e.id \in ViewerIds /\ e.ts = lastHb[e.id]
  /\ resp.kind = "count" => resp.count = Cardinality(resp.ids)

\* one id was heartbeated by the endpoint, by a connection being opened and
\* by a presence tick, the last of them later than the first, and the count
\* reported is 1
C11_Witness ==
  \E id \in ViewerIds :
    /\ hbVia[id] = {"post", "open", "tick"}
    /\ [id |-> id, ts |-> now] \in viewerHeartbeats
    /\ now > 0
    /\ resp = [kind |-> "count", count |-> 1, ids |-> {id}]

\* the connections that are open, and the ids they were opened under
OpenConns == {c \in DOMAIN conn : conn[c].st = "open"}
OpenIds == {conn[c].id : c \in OpenConns} \ {NoId}

\* the connections that were opened under an id and have closed, with no
\* heartbeat of that id for longer than the TTL
Gone ==
  {c \in DOMAIN conn : /\ conn[c].st = "closed"
                       /\ conn[c].id # NoId
                       /\ Age(conn[c].id) > VIEWER_HEARTBEAT_TTL_MS}

\* what getViewerCount() returns now
CountNow == Size(getViewerCount(viewerHeartbeats))

\* the last count sent, if one was sent since time last passed, is n
Counted(n) == resp.kind = "count" => resp.count = n

\* C12: with three connections open under three distinct ids the count is 3,
\* at the first presence tick and after it; once one of them has closed and
\* more than the TTL has passed since the last heartbeat of its id, while the
\* other two are open, the count is 2.
C12_EndToEndPresence ==
  /\ (Cardinality(OpenConns) = 3 /\ Cardinality(OpenIds) = 3) =>
       CountNow = 3 /\ Counted(3)
  /\ (Cardinality(OpenConns) = 2 /\ Cardinality(OpenIds) = 2 /\ Gone # {}) =>
       /\ CountNow = 2 /\ Counted(2)
       /\ Keys(getViewerCount(viewerHeartbeats)) = OpenIds

\* three connections were opened under distinct ids and had their first
\* presence tick; one closed, more than the TTL has passed since its last
\* heartbeat, and a presence tick of another has just sent the count 2
C12_Witness ==
  \E c \in Gone :
    /\ Cardinality(OpenConns) = 2 /\ Cardinality(OpenIds) = 2
    /\ \A d \in DOMAIN conn :
         Len(SelectSeq(conn[d].wrote, LAMBDA e : e = "viewers")) >= 2
    /\ hbVia[conn[c].id] = {"open", "tick"}
    /\ resp = [kind |-> "count", count |-> 2, ids |-> OpenIds]

\* C13: the id of an open connection is in the result of getViewerCount() at
\* every moment, whether or not the heartbeat endpoint is ever called.
C13_OpenConnectionPresent ==
  \A c \in OpenConns :
    conn[c].id # NoId =>
      /\ conn[c].id \in Keys(getViewerCount(viewerHeartbeats))
      /\ resp.kind = "count" => conn[c].id \in resp.ids

\* a connection has been open for longer than the TTL, heartbeated only at
\* its open and by its presence ticks, and the count just sent includes it
C13_Witness ==
  \E c \in OpenConns :
    /\ conn[c].id # NoId
    /\ hbVia[conn[c].id] = {"open", "tick"}
    /\ now > VIEWER_HEARTBEAT_TTL_MS
    /\ Len(SelectSeq(conn[c].wrote, LAMBDA e : e = "viewers")) >= 5
    /\ resp.kind = "count" /\ conn[c].id \in resp.ids

\* ------------------------------------------- numeric fields of upstream bodies

\* the text the camera sends as the value of a numeric field
Texts == {"", " ", "abc", "NaN", "Infinity", "-Infinity", "0", "12", "-7", " 12 "}

\* how a field appears in a body: not at all, as a key with no `=` (or, in
\* XML, not at all), or with a value
RawForms ==
  {[form |-> "absent", text |-> ""], [form |-> "bare", text |-> ""]}
    \cup {[form |-> "valued", text |-> t] : t \in Texts}

\* `s.trim()`
Trim(t) == CASE t = " " -> "" [] t = " 12 " -> "12" [] OTHER -> t

\* JavaScript values: undefined / null, or a string
Undefined == [def |-> FALSE, text |-> ""]
Str(t) == [def |-> TRUE, text |-> t]

\* `Number(v)`: NaN for undefined and for text that is not a numeric
\* literal, 0 for the empty string and for white space, which is trimmed
NumberJs(v) ==
  IF ~v.def THEN [kind |-> "NaN", n |-> 0]
  ELSE CASE Trim(v.text) = "" -> [kind |-> "finite", n |-> 0]
         [] Trim(v.text) = "0" -> [kind |-> "finite", n |-> 0]
         [] Trim(v.text) = "12" -> [kind |-> "finite", n |-> 12]
         [] Trim(v.text) = "-7" -> [kind |-> "finite", n |-> -7]
         [] Trim(v.text) \in {"Infinity", "-Infinity"} -> [kind |-> "Infinity", n |-> 0]
         [] OTHER -> [kind |-> "NaN", n |-> 0]

\* the value of a parsed field
Null == [kind |-> "null", n |-> 0]
Num(n) == [kind |-> "number", n |-> n]

\* `Number.isFinite(n) ? n : null`
FiniteOrNull(r) == IF r.kind = "finite" THEN Num(r.n) ELSE Null

\* getPtzStatus: `const [k, v] = part.split("=")` on the parts between white
\* space, then `toNumber(kv.zoom)`
PtzField(raw) ==
  FiniteOrNull(NumberJs(IF raw.form = "valued" THEN Str(raw.text) ELSE Undefined))

\* getGeolocation: `extract(tag)` gives null or the trimmed text between the
\* tags, and toNumber returns null for null
GeoField(raw) ==
  IF raw.form # "valued" THEN Null ELSE FiniteOrNull(NumberJs(Str(Trim(raw.text))))

\* parseTemperaturePayload: `const [rawKey, rawValue = ""] = line.split("=")`;
\* a field with no line keeps its initial null
TemperatureField(raw) ==
  IF raw.form = "absent" THEN Null
  ELSE FiniteOrNull(NumberJs(Str(IF raw.form = "bare" THEN "" ELSE Trim(raw.text))))

Parsers == {"ptz", "geolocation", "temperature"}

\* the numeric fields each parser sets
NumericFields(p) ==
  CASE p = "ptz" -> {"magnification", "pan", "tilt"}
    [] p = "geolocation" -> {"lat", "lng", "heading"}
    [] OTHER -> {"celsius", "fahrenheit", "timeUntilStop"}

\* the forms a field can have in the body of each parser: the PTZ body is
\* split at white space, so no value holds any; XML has no bare key
FormsOf(p) ==
  CASE p = "ptz" -> {r \in RawForms : r.text = Trim(r.text)}
    [] p = "geolocation" -> {r \in RawForms : r.form # "bare"}
    [] OTHER -> RawForms

ParseField(p, raw) ==
  CASE p = "ptz" -> PtzField(raw)
    [] p = "geolocation" -> GeoField(raw)
    [] OTHER -> TemperatureField(raw)

\* a body is read and parsed (one body in each behaviour)
ParseBody(p, raw) ==
  /\ parse = NoParse
  /\ parse' = [parser |-> p, raw |-> raw,
               out |-> [f \in NumericFields(p) |-> ParseField(p, raw[f])]]
  /\ UNCHANGED <<limits, client>>
  /\ UNCHANGED <<clockVars, cacheVars, aggVars, presenceVars, streamVars>>

ParseNext ==
  \E p \in Parsers : \E raw \in [NumericFields(p) -> FormsOf(p)] : ParseBody(p, raw)

ParseInit == Init /\ resource = "status"

ParseSpec == ParseInit /\ [][ParseNext]_vars

\* ------------------------------------------------ claims, numeric parsing

\* the text is a finite number
FiniteText(t) == Trim(t) \in {"0", "12", "-7"}

\* C22: each numeric field of a parsed PTZ position, geolocation or
\* temperature body is the number sent when the text sent is a finite number,
\* and null for a missing key, an empty value and any other text.
C22_DefensiveParsing ==
  parse.parser # "none" =>
    \A f \in NumericFields(parse.parser) :
      LET raw == parse.raw[f] IN
      parse.out[f] = IF raw.form = "valued" /\ FiniteText(raw.text)
                     THEN FiniteOrNull(NumberJs(Str(raw.text))) ELSE Null

\* the PTZ body held `tilt=` with nothing after it, and pan and zoom as
\* numbers: the tilt parsed is the number 0
C22_Witness ==
  /\ parse.parser = "ptz"
  /\ parse.raw["tilt"] = [form |-> "valued", text |-> ""]
  /\ parse.out["tilt"] = Num(0)
  /\ parse.out["pan"] = Num(12) /\ parse.out["magnification"] = Num(-7)

\* ------------------------------------------------- both caches in one run

\* GET /api/status or GET /api/ptz/capabilities, whichever the client asks
ApiGetOn(r, c) ==
  /\ \A x \in Callers : x < r => caller[x].pc # "idle"
  /\ GetCached(r, c)
  /\ UNCHANGED <<clockVars, aggVars, presenceVars, streamVars, limitsVars>>

\* time passes, up to and past an expiry of either cache
TickBoth ==
  /\ ticks < MaxTicks
  /\ \E c \in Caches : \E d \in CacheDeltas(c) : Tick(d)
  /\ UNCHANGED <<cacheVars, aggVars, presenceVars, streamVars, limitsVars>>

BothNext ==
  \/ \E r \in Callers : \E c \in Caches : ApiGetOn(r, c)
  \/ \E b \in BuildIds : BuildResolves(b)
  \/ \E b \in BuildIds : BuildRejects(b)
  \/ \E r \in Callers : CallerResume(r)
  \/ \E r \in Callers : CallerFinish(r)
  \/ TickBoth

BothInit == Init /\ resource = "status"

BothSpec == BothInit /\ [][BothNext]_vars

\* ------------------------------------------------ claims, both caches

Other(c) == CHOOSE x \in Caches : x # c

\* C23: a call of one cache, and the start, success or failure of one of its
\* builds, leave the other cache's data, expiresAt and marker as they were;
\* a caller of one cache never awaits a build of the other, is answered from
\* its own cache when that is fresh, and starts its own build when its own
\* cache is neither fresh nor being built, whatever the other cache is doing.
C23_CachesIndependent ==
  /\ [][\A c \in Caches :
          /\ \A r \in Callers :
               ApiGetOn(r, c) =>
                 /\ cache'[Other(c)] = cache[Other(c)]
                 /\ Fresh(c) => caller'[r].p = NoPromise /\ nbuilds' = nbuilds
                 /\ (~Fresh(c) /\ cache[c].promise = NoPromise) =>
                      /\ nbuilds' = nbuilds + 1
                      /\ caller'[r].p = nbuilds + 1
                      /\ cache'[c].promise = nbuilds + 1
                 /\ (~Fresh(c) /\ cache[c].promise # NoPromise) =>
                      caller'[r].p = cache[c].promise /\ nbuilds' = nbuilds
          /\ \A b \in BuildIds :
               ((BuildResolves(b) \/ BuildRejects(b)) /\ promise[b].c = c) =>
                 cache'[Other(c)] = cache[Other(c)]]_vars
  /\ [](\A r \in Callers :
          (caller[r].pc # "idle" /\ caller[r].p # NoPromise) =>
            promise[caller[r].p].c = caller[r].c)
  /\ [](\A c \in Caches :
          cache[c].promise # NoPromise => promise[cache[c].promise].c = c)

\* a build of each cache is in flight at once, each awaited by its own caller
C23_Witness ==
  \E r1, r2 \in Callers :
    /\ caller[r1].pc = "await" /\ caller[r1].c = "status" /\ caller[r1].started
    /\ caller[r2].pc = "await" /\ caller[r2].c = "caps" /\ caller[r2].started
    /\ cache["status"].promise = caller[r1].p
    /\ cache["caps"].promise = caller[r2].p
    /\ promise[caller[r1].p].state = "pending"
    /\ promise[caller[r2].p].state = "pending"

\* ------------------------------------------------ claims, the cache entry

\* C24: while the in-flight marker of a cache is set, its data is null or
\* has expired; and the data of a build is never in the cache while that
\* build is still the marker or still pending.
C24_BuildOnlyWhenStale ==
  \A c \in Caches :
    /\ cache[c].promise # NoPromise =>
         cache[c].data = NoData \/ now >= cache[c].expiresAt
    /\ cache[c].data # NoData =>
         /\ cache[c].promise # cache[c].data.build
         /\ promise[cache[c].data.build].state = "fulfilled"

\* a value was cached and has expired, and the build that replaces it is in
\* flight
C24_Witness ==
  \E c \in Caches :
    /\ cache[c].promise # NoPromise
    /\ promise[cache[c].promise].state = "pending"
    /\ cache[c].data # NoData
    /\ now >= cache[c].expiresAt

\* C25: the data of a cache is only ever replaced by the snapshot of a build
\* started later than the one that made the data it replaces; a call answered
\* from the cache gets the newest snapshot stored, and a call that awaited a
\* build gets that build's snapshot, which is the newest when it is settled.
C25_SnapshotsNeverGoBack ==
  /\ [][\A c \in Caches :
          /\ cache'[c].data # cache[c].data =>
               /\ cache'[c].data.build > cache[c].data.build
               /\ LastBuilt(c)' = cache'[c].data.build
          /\ \A r \in Callers :
               (GetCached(r, c) /\ Fresh(c)) =>
                 caller'[r].res.build = LastBuilt(c)]_vars
  /\ [](\A r \in Callers :
          (caller[r].pc = "done" /\ caller[r].res.kind = "value") =>
            /\ caller[r].res.build >= caller[r].last
            /\ caller[r].res.build <= LastBuilt(caller[r].c)
            /\ caller[r].p # NoPromise => caller[r].res.build = caller[r].p)
  /\ [](\A c \in Caches : LastBuilt(c) = cache[c].data.build)

\* the snapshot of the first build was replaced by that of the second; one
\* caller has been answered with the first, a later one with the second
C25_Witness ==
  \E c \in Caches : \E r1, r2 \in Callers :
    /\ cache[c].data.build = 2
    /\ caller[r1].pc = "done" /\ caller[r1].c = c /\ caller[r1].res.build = 1
    /\ caller[r2].pc = "done" /\ caller[r2].c = c /\ caller[r2].res.build = 2

\* ------------------------------------------------ degraded snapshots

\* the fields that carry an error in what a build of cache c resolves to: of
\* a status snapshot none, one, two or all five, or the limits object as a
\* whole
ErrorSets(c) ==
  IF c = "status"
  THEN {{}, {"optics"}, {"geolocation", "time"}, Fields}
  ELSE {{}, {"limits"}}

\* a build resolves to a snapshot, good or degraded
DegradedResolves(b) ==
  /\ promise[b].state = "pending"
  /\ \E errs \in ErrorSets(promise[b].c) : BuildSettle(b, errs)
  /\ UNCHANGED <<clockVars, aggVars, presenceVars, streamVars, limitsVars>>

DegradedNext ==
  \/ \E r \in Callers : ApiGet(r)
  \/ \E b \in BuildIds : DegradedResolves(b)
  \/ \E r \in Callers : CallerResume(r)
  \/ \E r \in Callers : CallerFinish(r)
  \/ TickCache

DegradedSpec == Init /\ [][DegradedNext]_vars

\* the cache holds a snapshot that carries an error
Degraded(c) == cache[c].data # NoData /\ cache[c].data.err # {}

\* C26: a build that resolves to a snapshot carrying errors stores it with
\* expiresAt one full TTL ahead, and every call made before then is answered
\* with that snapshot, errors included, and starts no build.
C26_DegradedCached ==
  /\ [][\A b \in BuildIds :
          (DegradedResolves(b) /\ promise'[b].err # {}) =>
            /\ cache'[promise[b].c].data = [build |-> b, err |-> promise'[b].err]
            /\ cache'[promise[b].c].expiresAt = now + TTL(promise[b].c)]_vars
  /\ [][\A r \in Callers :
          (/\ ApiGet(r)
           /\ Degraded(resource)
           /\ now < builtAt[resource].at + TTL(resource)) =>
            /\ nbuilds' = nbuilds
            /\ cache' = cache
            /\ caller'[r].p = NoPromise
            /\ caller'[r].res = [kind |-> "value", build |-> LastBuilt(resource),
                                 err |-> cache[resource].data.err]]_vars

\* a status snapshot with two fields in error was stored, and a call made one
\* millisecond before its TTL ran out was answered with it from the cache
C26_Witness ==
  \E r \in Callers :
    /\ caller[r].pc = "done" /\ caller[r].c = "status"
    /\ ~caller[r].started /\ caller[r].p = NoPromise
    /\ caller[r].res.err = {"geolocation", "time"}
    /\ caller[r].res.build = LastBuilt("status")
    /\ now = builtAt["status"].at + STATUS_CACHE_MS - 1

\* ------------------------------------------------ claims, viewers events

\* C27: the viewers event written when a connection with an id is opened,
\* and at each of its presence ticks, reports a count of at least 1 that
\* includes the connection's own id, recorded at that moment.
C27_OwnIdCounted ==
  [][\A c \in DOMAIN conn :
       /\ (PingTick(c) /\ conn[c].id # NoId) =>
            /\ resp'.kind = "count" /\ resp'.count >= 1
            /\ conn[c].id \in resp'.ids
            /\ [id |-> conn[c].id, ts |-> now] \in viewerHeartbeats'
       /\ \A id \in ViewerIds :
            StreamOpen(c, id) =>
              /\ resp'.kind = "count" /\ resp'.count >= 1
              /\ id \in resp'.ids
              /\ [id |-> id, ts |-> now] \in viewerHeartbeats']_vars

\* the other two viewers have closed and expired; the presence tick of the
\* one connection left has swept them and reports 1, its own id
C27_Witness ==
  \E c \in OpenConns :
    /\ Cardinality(Gone) = 2
    /\ conn[c].id # NoId
    /\ resp = [kind |-> "count", count |-> 1, ids |-> {conn[c].id}]
    /\ viewerHeartbeats = {[id |-> conn[c].id, ts |-> now]}

\* the positions of the events of the given kinds among those written
Positions(w, kinds) == {i \in 1..Len(w) : w[i] \in kinds}

\* C28: on every connection the first event written is connected, and a
\* viewers event is written before any status or status-error event,
\* whether the cache held a fresh value, a build was in flight or the
\* cache was cold when the connection was opened.
C28_EventOrder ==
  \A c \in DOMAIN conn :
    conn[c].st # "none" =>
      LET w == conn[c].wrote IN
      /\ Len(w) >= 2
      /\ w[1] = "connected"
      /\ Positions(w, {"connected"}) = {1}
      /\ Positions(w, {"viewers"}) # {}
      /\ \A i \in Positions(w, {"status", "status-error"}) :
           \E j \in Positions(w, {"viewers"}) : j < i

\* one connection was opened on a cold cache and got the build it started;
\* the other was opened while the value was fresh and got it without a build
C28_Witness ==
  \E c, d \in DOMAIN conn :
    /\ conn[c].started # {} /\ conn[c].started \subseteq conn[c].got
    /\ conn[c].wrote = <<"connected", "viewers", "status">>
    /\ conn[d].started = {} /\ conn[d].got = {} /\ conn[d].awaits = <<>>
    /\ conn[d].wrote = <<"connected", "viewers", "status">>

\* a status push of the connection is suspended on a build that has not
\* settled
Suspended(c) ==
  /\ conn[c].awaits # <<>>
  /\ \A i \in 1..Len(conn[c].awaits) :
       /\ conn[c].awaits[i] # NoPromise
       /\ promise[conn[c].awaits[i]].state = "pending"

\* C29: a presence tick that is due fires whether or not status pushes are
\* suspended on a build; fired while one is, it re-heartbeats the id,
\* writes a viewers event and leaves every suspended push as it was. A
\* status tick fired while an earlier push of the same connection is
\* suspended waits for the same build and starts none.
C29_PresenceIndependent ==
  /\ [](\A c \in DOMAIN conn :
          (/\ conn[c].heartbeatId # NoTimer
           /\ conn[c].heartbeatId <= now
           /\ \A d \in DOMAIN conn : conn[d].awaits # <<>> => Suspended(d))
          => ENABLED PingTick(c))
  /\ [][\A c \in DOMAIN conn :
          /\ (PingTick(c) /\ \E d \in DOMAIN conn : Suspended(d)) =>
               /\ conn'[c].wrote = Append(conn[c].wrote, "viewers")
               /\ conn[c].id # NoId =>
                    [id |-> conn[c].id, ts |-> now] \in viewerHeartbeats'
               /\ \A d \in DOMAIN conn : conn'[d].awaits = conn[d].awaits
               /\ UNCHANGED <<cache, promise, nbuilds>>
          /\ (StatusTick(c) /\ conn[c].awaits # <<>>) =>
               /\ Suspended(c)
               /\ conn'[c].awaits =
                    Append(conn[c].awaits, cache["status"].promise)
               /\ \A i \in 1..Len(conn'[c].awaits) :
                    conn'[c].awaits[i] = conn[c].awaits[1]
               /\ UNCHANGED <<promise, nbuilds>>]_vars

\* the build started when the first connection was opened is still running
\* after the status timers have fired: each connection has two pushes
\* waiting for that one build and has written its second viewers event
C29_Witness ==
  /\ nbuilds = 1
  /\ promise[1].state = "pending"
  /\ \A c \in Conns :
       /\ conn[c].st = "open"
       /\ conn[c].awaits = <<1, 1>>
       /\ conn[c].wrote = <<"connected", "viewers", "viewers">>
       /\ \E e \in viewerHeartbeats : e.id = conn[c].id /\ e.ts = 15000

\* ------------------------------------------- the viewer's telemetry effect

TELEMETRY_RETRY_BASE_DELAY == 2000
TELEMETRY_RETRY_MAX_DELAY == 20000
TELEMETRY_RETRY_MAX_ATTEMPTS == 6

\* `viewerCount = null` is 0 here: the counts sent to a connection with an id
\* start at 1
Counts == 1..NumViewers

\* Math.min
MathMin(a, b) == IF a <= b THEN a ELSE b

\* the delay onerror passes to setTimeout
RetryDelay(retryCount) ==
  MathMin(TELEMETRY_RETRY_MAX_DELAY, TELEMETRY_RETRY_BASE_DELAY * 2 ^ retryCount)

\* mutant: one more attempt is allowed
GiveUp_Late(retryCount) == retryCount > TELEMETRY_RETRY_MAX_ATTEMPTS

\* `if (retryCount >= TELEMETRY_RETRY_MAX_ATTEMPTS) return`
GiveUp(retryCount) == retryCount >= TELEMETRY_RETRY_MAX_ATTEMPTS

\* stopRetry(): clearTimeout of the timer held, if any
stopRetry(k) ==
  IF k.retryTimeout # NoTimeout
  THEN [k EXCEPT !.timers = {t \in @ : t.id # k.retryTimeout},
                 !.retryTimeout = NoTimeout]
  ELSE k

\* connect(): nothing once closed; otherwise a new EventSource, which
\* becomes the one `eventSource` names
connect(k) ==
  IF k.closed THEN k
  ELSE [stopRetry(k) EXCEPT !.loadingStatus = TRUE,
                            !.sources = Append(@, "connecting")]

\* the readyState of the EventSource that `eventSource` names
ReadyState(k) == k.sources[Len(k.sources)]

\* eventSource.onerror, run after the browser has set the readyState
onerror(k) ==
  LET u == [k EXCEPT !.apiError = "disconnected", !.viewerCount = 0,
                     !.loadingStatus = FALSE]
  IN
  IF ReadyState(u) = "closed" /\ ~GiveUp(u.retryCount)
  THEN [u EXCEPT !.retryCount = @ + 1,
                 !.retryTimeout = u.ntimers + 1,
                 !.ntimers = @ + 1,
                 !.timers = @ \cup {[id |-> u.ntimers + 1,
                                     delay |-> RetryDelay(u.retryCount)]},
                 !.scheduled = Append(@, RetryDelay(u.retryCount))]
  ELSE u

\* the rest of the model stands still while the page acts
ClientFrame ==
  /\ UNCHANGED <<limits, parse>>
  /\ UNCHANGED <<clockVars, cacheVars, aggVars, presenceVars, streamVars>>

\* the effect runs: without a viewer id it returns at once, with one it
\* calls connect()
EffectRuns(viewerId) ==
  /\ client.phase = "idle"
  /\ client' = IF viewerId = NoId THEN [client EXCEPT !.phase = "skipped"]
               ELSE connect([client EXCEPT !.phase = "mounted"])
  /\ ClientFrame

\* the browser has the response headers: the EventSource is OPEN
SourceOpens(i) ==
  /\ client.sources[i] = "connecting"
  /\ client' = [client EXCEPT !.sources[i] = "open"]
  /\ ClientFrame

\* an event of the stream reaches its listener; a malformed status payload
\* is ignored, a malformed viewers payload sets the count to null
SourceEvent(i, ev, wellFormed, count) ==
  /\ client.sources[i] = "open"
  /\ client' =
       CASE ev = "connected" -> [client EXCEPT !.apiError = "null"]
         [] ev = "status" ->
              IF wellFormed
              THEN [client EXCEPT !.apiError = "null", !.loadingStatus = FALSE]
              ELSE client
         [] ev = "status-error" ->
              [client EXCEPT !.apiError = "status", !.loadingStatus = FALSE]
         [] ev = "viewers" ->
              [client EXCEPT !.viewerCount = IF wellFormed THEN count ELSE 0]
  /\ ClientFrame

\* the connection of an EventSource fails: the browser either reconnects by
\* itself (CONNECTING) or gives the source up (CLOSED), and fires error
SourceError(i, fatal) ==
  /\ client.sources[i] \in {"connecting", "open"}
  /\ client' = onerror([client EXCEPT !.sources[i] =
                          IF fatal THEN "closed" ELSE "connecting"])
  /\ ClientFrame

\* a pending timer fires: connect()
RetryFires(t) ==
  /\ t \in client.timers
  /\ client' = connect([client EXCEPT !.timers = @ \ {t}])
  /\ ClientFrame

\* the effect's cleanup: closed, stopRetry(), eventSource.close()
EffectCleanup ==
  /\ client.phase = "mounted"
  /\ client' =
       [stopRetry([client EXCEPT !.closed = TRUE]) EXCEPT
          !.phase = "cleaned",
          !.sources = IF @ = <<>> THEN @ ELSE [@ EXCEPT ![Len(@)] = "closed"]]
  /\ ClientFrame

StreamEvents == {"connected", "status", "status-error", "viewers"}

ClientNext ==
  \/ \E viewerId \in {NoId, 1} : EffectRuns(viewerId)
  \/ \E i \in DOMAIN client.sources : SourceOpens(i)
  \/ \E i \in DOMAIN client.sources : \E ev \in StreamEvents :
       \E wellFormed \in BOOLEAN : \E count \in Counts :
         SourceEvent(i, ev, wellFormed, count)
  \/ \E i \in DOMAIN client.sources : \E fatal \in BOOLEAN : SourceError(i, fatal)
  \/ \E t \in client.timers : RetryFires(t)
  \/ EffectCleanup

ClientSpec == Init /\ [][ClientNext]_vars

\* --------------------------------------------- claims, the telemetry effect

\* C30: the delays of the reconnects the effect scheduled are 2000, 4000,
\* 8000, 16000, 20000 and 20000 ms, in that order, and there are at most 6;
\* at most one timer is pending; a source that reaches CLOSED before the
\* sixth reconnect was scheduled leaves one pending; after the cleanup no
\* timer is pending, every EventSource is CLOSED, and none is created.
C30_ReconnectBounded ==
  /\ [](/\ Len(client.scheduled) <= 6
        /\ Len(client.sources) <= 7
        /\ \A n \in 1..Len(client.scheduled) :
             client.scheduled[n] =
               IF 2000 * 2 ^ (n - 1) < 20000 THEN 2000 * 2 ^ (n - 1) ELSE 20000
        /\ Cardinality(client.timers) <= 1
        /\ client.closed =>
             /\ client.timers = {}
             /\ \A i \in DOMAIN client.sources : client.sources[i] = "closed")
  /\ [][/\ (/\ ~client'.closed
            /\ Len(client.scheduled) < 6
            /\ \E i \in DOMAIN client.sources :
                 client.sources[i] # "closed" /\ client'.sources[i] = "closed")
           => /\ Len(client'.scheduled) = Len(client.scheduled) + 1
              /\ \E t \in client'.timers :
                   t.delay = client'.scheduled[Len(client'.scheduled)]
        /\ client.closed =>
             /\ client'.sources = client.sources
             /\ client'.scheduled = client.scheduled]_vars

\* six reconnects were made and the seventh EventSource has failed too: the
\* effect, still mounted, has no timer pending
C30_Witness ==
  /\ client.phase = "mounted"
  /\ client.scheduled = <<2000, 4000, 8000, 16000, 20000, 20000>>
  /\ Len(client.sources) = 7
  /\ \A i \in DOMAIN client.sources : client.sources[i] = "closed"
  /\ client.timers = {}

====
